---- MODULE Spec2Model ----
(***************************************************************************)
(* Noble Raffle: the two command line programs src/raffle.py (plain        *)
(* 90/10 draw) and src/raffles/noble-raffle-038/raffle.py (preference      *)
(* aware draw), modelled as one state machine.  A behaviour is one or more *)
(* invocations of the program, on the same input files, in one directory.  *)
(***************************************************************************)
EXTENDS Integers, Sequences, FiniteSets, TLC

VARIABLES
    variant,          \* which of the two programs is run: "base" or "pref"
    argv,             \* cli_args: [hash, supply, no_out]
    ownersFile,       \* owners.csv: Missing, or its data rows
    optionsFile,      \* raffle_options.csv: Missing, or its data rows
    mintFile,         \* mint_wallets.csv: Missing, or its data rows
    winnersFile,      \* winners.csv: Absent, or its rows (header first)
    logFile,          \* output.txt: Absent, or the lines written to it
    run,              \* number of the current invocation
    pc,               \* position of the invocation in main() / raffle()
    exitCode,         \* NoCode while the process runs, then Exit(status)
    stdout,           \* sys.stdout: "terminal" or "tee" (a TeeLogger)
    rng,              \* state of the process wide generator of module random
    owners,           \* main(): owners
    raffle_options,   \* main(): raffle_options (preference aware program)
    lp_picks,         \* raffle(): lp_picks
    base_picks,       \* raffle(): base_picks
    lps_entries,      \* raffle(): lps_entries
    base_entries,     \* raffle(): base_entries
    participate,      \* raffle(): participate
    dont_participate, \* raffle(): dont_participate
    no_preference,    \* raffle(): no_preference
    lp_winners,       \* raffle(): lp_winners
    base_winners,     \* raffle(): base_winners
    winners,          \* main(): winners
    mint_wallet_map,  \* main(): mint_wallet_map
    grouped_winners   \* main(): grouped_winners

fileVars == <<ownersFile, optionsFile, mintFile>>
outVars == <<winnersFile, logFile>>
raffleVars == <<lp_picks, base_picks, lps_entries, base_entries, participate,
                dont_participate, no_preference, lp_winners, base_winners>>
mainVars == <<owners, raffle_options, winners, mint_wallet_map, grouped_winners>>
vars == <<variant, argv, fileVars, outVars, run, pc, exitCode, stdout, rng,
          mainVars, raffleVars>>

----------------------------------------------------------------------------
(* Bounds of the model. *)

MaxSupply == 3      \* --supply ranges over -1 .. MaxSupply
MaxBalance == 2     \* balances in owners.csv range over 0 .. MaxBalance
MaxRows == 2        \* owners.csv holds at most MaxRows data rows
MaxRuns == 2        \* the program is invoked at most MaxRuns times
RngMod == 5         \* number of states of the abstract generator

----------------------------------------------------------------------------
(* Program constants. *)

LETS_PLAY_TOKEN_ID == 34

BURN_ZERO == "0x0000000000000000000000000000000000000000"
BURN_DEAD == "0x000000000000000000000000000000000000dead"
TREASURY == "0x1fd8df37b360d7366db649703014e637ee214f4a"

IGNORED_ADDRESSES == <<BURN_ZERO, BURN_DEAD, TREASURY>>

RNG_SEED_PREFIX == <<"N", "o", "b", "l", "e", "R", "a", "f", "f", "l", "e">>

(* Holder and mint addresses of the model. *)
ADDR_A == "0xaaaaaaaaaaaaaaaaaaaaaaaaaaaaaaaaaaaaaaaa"
ADDR_B == "0xbbbbbbbbbbbbbbbbbbbbbbbbbbbbbbbbbbbbbbbb"
ADDR_C == "0xcccccccccccccccccccccccccccccccccccccccc"
ADDR_M == "0xdddddddddddddddddddddddddddddddddddddddd"

(* Every address of the model, in the order Python compares strings. *)
AddressOrder == <<BURN_ZERO, BURN_DEAD, TREASURY, ADDR_A, ADDR_B, ADDR_C, ADDR_M>>
Addresses == {AddressOrder[i] : i \in DOMAIN AddressOrder}
Rank(a) == CHOOSE i \in DOMAIN AddressOrder : AddressOrder[i] = a

(* A file of the directory: absent, or present with its rows (lines). *)
Missing == [exists |-> FALSE, rows |-> <<>>]
Absent == Missing
File(rows) == [exists |-> TRUE, rows |-> rows]
NoCode == <<>>     \* the process has not ended
Exit(code) == <<code>>

----------------------------------------------------------------------------
(* Sequences. *)

Range(s) == {s[i] : i \in DOMAIN s}
SeqsUpTo(S, n) == UNION {[1..k -> S] : k \in 0..n}
Repeat(x, n) == [i \in 1..n |-> x]
Min(a, b) == IF a <= b THEN a ELSE b

(* len([w for w in s if w == x]) *)
CountOf(s, x) == Cardinality({i \in DOMAIN s : s[i] = x})

RECURSIVE Filter(_, _)
Filter(s, keep) ==
    IF s = <<>> THEN <<>>
    ELSE (IF Head(s) \in keep THEN <<Head(s)>> ELSE <<>>) \o Filter(Tail(s), keep)

(* list.sort() / sorted() of a list of addresses: insertion into a sorted list. *)
RECURSIVE InsertSorted(_, _)
InsertSorted(s, x) ==
    IF s = <<>> THEN <<x>>
    ELSE IF Rank(x) < Rank(Head(s)) THEN <<x>> \o s
    ELSE <<Head(s)>> \o InsertSorted(Tail(s), x)

RECURSIVE SortAddresses(_)
SortAddresses(s) ==
    IF s = <<>> THEN <<>> ELSE InsertSorted(SortAddresses(Tail(s)), Head(s))

----------------------------------------------------------------------------
(* Reading the input tables. *)

Digits == <<"0", "1", "2", "3", "4", "5", "6", "7", "8", "9">>

(* str(n), as gen.py writes token ids and balances into owners.csv. *)
Numeral(n) ==
    IF n < 10 THEN Digits[n + 1] ELSE Digits[(n \div 10) + 1] \o Digits[(n % 10) + 1]

(* int(s) for the decimal numerals of the tables. *)
IntOf(s) == CHOOSE n \in 0..99 : Numeral(n) = s

(* ParseOwners without the test against IGNORED_ADDRESSES. *)
RECURSIVE ParseOwnersUnfiltered(_)
ParseOwnersUnfiltered(rows) ==
    IF rows = <<>> THEN <<>>
    ELSE LET row == Head(rows) IN
         <<<<row[1], IntOf(row[2]), IntOf(row[3])>>>> \o ParseOwnersUnfiltered(Tail(rows))

(* The owners list of main(): rows of ignored addresses dropped, the other
   rows converted to (address, int(token_id), int(balance)). *)
RECURSIVE ParseOwners(_)
ParseOwners(rows) ==
    IF rows = <<>> THEN <<>>
    ELSE LET row == Head(rows) IN
         (IF row[1] \notin Range(IGNORED_ADDRESSES)
          THEN <<<<row[1], IntOf(row[2]), IntOf(row[3])>>>>
          ELSE <<>>) \o ParseOwners(Tail(rows))

(* str.lower() on the words of the raffle options table. *)
Lower(w) ==
    CASE w = "True" -> "true"
      [] w = "TRUE" -> "true"
      [] w = "False" -> "false"
      [] OTHER -> w

EmptyMap == [a \in {} |-> a]
Put(map, k, v) == [x \in (DOMAIN map) \cup {k} |-> IF x = k THEN v ELSE map[x]]

(* dict(read_csv(path, True)): later rows replace earlier ones. *)
RECURSIVE OptionsDict(_, _)
OptionsDict(rows, acc) ==
    IF rows = <<>> THEN acc
    ELSE OptionsDict(Tail(rows), Put(acc, Head(rows)[1], Lower(Head(rows)[2]) = "true"))

(* {addr: mint_addr for addr, mint_addr in read_csv(path)} *)
RECURSIVE MintDict(_, _)
MintDict(rows, acc) ==
    IF rows = <<>> THEN acc
    ELSE MintDict(Tail(rows), Put(acc, Head(rows)[1], Head(rows)[2]))

----------------------------------------------------------------------------
(* The seed and the generator.  The Mersenne Twister of module random is
   abstracted to a generator with RngMod states; what is kept is that
   random.seed(str) sets the whole state from the string alone and that
   every draw reads and advances the state. *)

HexDigits == {"0", "1", "2", "3", "4", "5", "6", "7", "8", "9",
              "a", "b", "c", "d", "e", "f", "A", "B", "C", "D", "E", "F"}

(* re.match(r"^0x[0-9a-fA-F]{64}$", hash): $ also matches before a final newline. *)
is_valid_ethereum_block_hash(hash) ==
    /\ Len(hash) \in {66, 67}
    /\ hash[1] = "0"
    /\ hash[2] = "x"
    /\ \A i \in 3..66 : hash[i] \in HexDigits
    /\ Len(hash) = 67 => hash[67] = "\n"

Alphabet == <<"0", "1", "2", "3", "4", "5", "6", "7", "8", "9",
              "a", "b", "c", "d", "e", "f", "x", "-", "N", "o", "l", "R",
              "n", "t", "h", "s", "\n">>
CharCode(c) == CHOOSE i \in DOMAIN Alphabet : Alphabet[i] = c

RECURSIVE Digest(_, _)
Digest(chars, i) ==
    IF i > Len(chars) THEN 0 ELSE i * CharCode(chars[i]) + Digest(chars, i + 1)

(* random.seed(f"{RNG_SEED_PREFIX}-{hash}"): the generator state after seeding. *)
SeedState(prefix, hash) == Digest(prefix \o <<"-">> \o hash, 1) % RngMod

NextRng(g) == (g + 1) % RngMod
RandBelow(g, n) == g % n

(* The selection loop of random.sample for a short population:
     pool = list(population)
     for i in range(k): j = randbelow(n - i); result[i] = pool[j]; pool[j] = pool[n - i - 1] *)
RECURSIVE SampleLoop(_, _, _, _, _)
SampleLoop(pool, i, k, g, result) ==
    IF i >= k THEN [ok |-> TRUE, result |-> result, rng |-> g]
    ELSE LET n == Len(pool)
             j == RandBelow(g, n - i) + 1
         IN  SampleLoop([pool EXCEPT ![j] = pool[n - i]], i + 1, k, NextRng(g),
                        Append(result, pool[j]))

(* random.sample(population, k): ValueError unless 0 <= k <= len(population). *)
Sample(population, k, g) ==
    IF ~(0 <= k /\ k <= Len(population))
    THEN [ok |-> FALSE, result |-> <<>>, rng |-> g]
    ELSE SampleLoop(population, 0, k, g, <<>>)

----------------------------------------------------------------------------
(* raffle(): quota, entry pools, preference groups. *)

(* PyInt as math.floor would compute it. *)
PyIntFloor(num, den) == num \div den

(* int(x) of the float num / den: the fraction part is dropped. *)
PyInt(num, den) == IF num >= 0 THEN num \div den ELSE -((-num) \div den)

(* The share of the supply that goes to Let's Play holders: 0.9 and 1.0. *)
LpShare(v) == IF v = "base" THEN <<9, 10>> ELSE <<10, 10>>

LpPicks(v, supply) == PyInt(LpShare(v)[1] * supply, LpShare(v)[2])
BasePicks(v, supply) == supply - LpPicks(v, supply)

(* LpsEntries with one entry per Let's Play record, whatever its balance. *)
RECURSIVE LpsEntriesOnce(_, _)
LpsEntriesOnce(os, acc) ==
    IF os = <<>> THEN acc
    ELSE LET o == Head(os) IN
         LpsEntriesOnce(Tail(os), IF o[2] = LETS_PLAY_TOKEN_ID
                                  THEN Append(acc, o[1]) ELSE acc)

RECURSIVE LpsEntries(_, _)
LpsEntries(os, acc) ==
    IF os = <<>> THEN acc
    ELSE LET o == Head(os) IN
         LpsEntries(Tail(os), IF o[2] = LETS_PLAY_TOKEN_ID
                              THEN acc \o Repeat(o[1], o[3]) ELSE acc)

RECURSIVE BaseEntries(_, _)
BaseEntries(os, acc) ==
    IF os = <<>> THEN acc
    ELSE LET o == Head(os) IN
         BaseEntries(Tail(os), IF o[2] = LETS_PLAY_TOKEN_ID
                               THEN acc ELSE Append(acc, o[1]))

Participating(options) == {a \in DOMAIN options : options[a] = TRUE}
Declining(options) == {a \in DOMAIN options : ~options[a]}
Undeclared(options) == Addresses \ DOMAIN options

----------------------------------------------------------------------------
(* The inputs of the model: command lines and tables. *)

HexRun == <<"0", "1", "2", "3", "4", "5", "6", "7", "8", "9",
            "a", "b", "c", "d", "e", "f">>

(* A block hash, a second one, and a string that is no block hash. *)
HASH_ONE == <<"0", "x">> \o [i \in 1..64 |-> HexRun[((i - 1) % 16) + 1]]
HASH_TWO == <<"0", "x">> \o [i \in 1..64 |-> HexRun[((7 * i) % 16) + 1]]
NOT_A_HASH == <<"n", "o", "t", "-", "a", "-", "h", "a", "s", "h">>

Hashes == {HASH_ONE, HASH_TWO, NOT_A_HASH}
Supplies == -1..MaxSupply

OTHER_TOKEN_ID == 7

OwnerRows(addrs, tokens) ==
    addrs \X {Numeral(t) : t \in tokens} \X {Numeral(b) : b \in 1..MaxBalance}

(* Any rows in any order, as raffle.py accepts them. *)
AnyOwnerTables(addrs, tokens) == SeqsUpTo(OwnerRows(addrs, tokens), MaxRows)

(* The tables with one row per (address, token) pair at most, in the order
   AddressOrder gives: gen.py sorts the snapshot before it writes it. *)
RECURSIVE SnapshotTables(_, _)
SnapshotTables(addrSeq, tokenSeq) ==
    IF addrSeq = <<>> THEN {<<>>}
    ELSE LET rest == SnapshotTables(Tail(addrSeq), tokenSeq)
             rowsOf(t) == {<<>>} \cup {<<<<Head(addrSeq), Numeral(t), Numeral(b)>>>> :
                                        b \in 1..MaxBalance}
             heads == IF Len(tokenSeq) = 1 THEN rowsOf(tokenSeq[1])
                      ELSE {x \o y : x \in rowsOf(tokenSeq[1]), y \in rowsOf(tokenSeq[2])}
         IN  {h \o r : h \in heads, r \in rest}

(* Tables with at most one row per key, the keys in AddressOrder. *)
KeyedTables(keys, values) ==
    LET maps == UNION {[d -> values] : d \in SUBSET keys}
        rows(m) == LET ks == Filter(AddressOrder, DOMAIN m)
                   IN  [i \in DOMAIN ks |-> <<ks[i], m[ks[i]]>>]
    IN  {rows(m) : m \in maps}

Files(tables) == {File(t) : t \in tables}
EmptyFile == File(<<>>)

----------------------------------------------------------------------------
(* Init: the process has started, main() has parsed the command line. *)

(* The generator states the process may start in: module random seeds
   itself from the operating system when it is imported. *)
EntropyStates == {0, RngMod - 1}

FreshProcess ==
    /\ pc = "start"
    /\ exitCode = NoCode
    /\ stdout = "terminal"
    /\ rng \in EntropyStates
    /\ owners = <<>>
    /\ raffle_options = EmptyMap
    /\ lp_picks = 0
    /\ base_picks = 0
    /\ lps_entries = <<>>
    /\ base_entries = <<>>
    /\ participate = <<>>
    /\ dont_participate = <<>>
    /\ no_preference = <<>>
    /\ lp_winners = <<>>
    /\ base_winners = <<>>
    /\ winners = <<>>
    /\ mint_wallet_map = EmptyMap
    /\ grouped_winners = EmptyMap

(* A line left in output.txt by something that ran before. *)
StaleLog == File(<<"stale">>)

InitFrom(variants, hashes, supplies, noOuts, ownerFiles, optionFiles, mintFiles, logs) ==
    /\ variant \in variants
    /\ argv \in [hash : hashes, supply : supplies, no_out : noOuts]
    /\ ownersFile \in ownerFiles
    /\ optionsFile \in IF variant = "pref" THEN optionFiles ELSE {Missing}
    /\ mintFile \in mintFiles
    /\ winnersFile = Absent
    /\ logFile \in logs
    /\ run = 1
    /\ FreshProcess

Variants == {"base", "pref"}

(* Command lines and missing files: every flag, seed and supply, each table
   missing or present, over the snapshots of one holder. *)
InitShell ==
    InitFrom(Variants, Hashes, Supplies, BOOLEAN,
             {Missing} \cup Files(SnapshotTables(<<ADDR_A>>,
                                                 <<OTHER_TOKEN_ID, LETS_PLAY_TOKEN_ID>>)),
             {Missing, EmptyFile, File(<<<<ADDR_A, "false">>>>)},
             {Missing, EmptyFile},
             {Absent, StaleLog})

(* Owners tables: any rows of two holders and a burn address, in any order,
   and the Let's Play snapshots of a holder, a burn address and the treasury. *)
InitOwners ==
    InitFrom(Variants, {HASH_ONE}, {1, 2}, {FALSE},
             Files(AnyOwnerTables({ADDR_A, ADDR_B, BURN_DEAD},
                                  {LETS_PLAY_TOKEN_ID, OTHER_TOKEN_ID}))
             \cup Files(SnapshotTables(<<BURN_ZERO, TREASURY, ADDR_A>>,
                                       <<LETS_PLAY_TOKEN_ID>>)),
             {EmptyFile}, {EmptyFile}, {Absent})

(* Preferences: Let's Play snapshots of three holders, every preference table. *)
InitPreferences ==
    InitFrom({"pref"}, {HASH_ONE, HASH_TWO}, 0..MaxSupply, {FALSE},
             Files(SnapshotTables(<<ADDR_A, ADDR_B, ADDR_C>>, <<LETS_PLAY_TOKEN_ID>>)),
             Files(KeyedTables({ADDR_A, ADDR_B, ADDR_C}, {"True", "false"})),
             {EmptyFile}, {Absent})

(* Mint wallets: snapshots of two holders, every mint wallet table that sends
   them to a mint wallet or to the other holder. *)
InitMintWallets ==
    InitFrom(Variants, {HASH_TWO}, 0..MaxSupply, {FALSE},
             Files(SnapshotTables(<<ADDR_A, ADDR_B>>,
                                  <<OTHER_TOKEN_ID, LETS_PLAY_TOKEN_ID>>)),
             {EmptyFile},
             Files(KeyedTables({ADDR_A, ADDR_B}, {ADDR_M, ADDR_B})),
             {Absent})

Init == InitShell \/ InitOwners \/ InitPreferences \/ InitMintWallets

----------------------------------------------------------------------------
(* main() and raffle(), statement by statement. *)

(* print(...): to the terminal, and to output.txt once sys.stdout is the TeeLogger. *)
Printed(log, out, lines) == IF out = "tee" THEN File(log.rows \o lines) ELSE log

(* read_csv(): "File not found", exit(1). *)
FileNotFound ==
    /\ logFile' = Printed(logFile, stdout, <<"File not found">>)
    /\ pc' = "exited"
    /\ exitCode' = Exit(1)

(* owners = [... for ... in read_csv(cli_args.owners) if address not in IGNORED_ADDRESSES] *)
LoadOwners ==
    /\ pc = "start"
    /\ IF ownersFile = Missing
       THEN FileNotFound /\ UNCHANGED owners
       ELSE /\ owners' = ParseOwners(ownersFile.rows)
            /\ pc' = "output"
            /\ UNCHANGED <<logFile, exitCode>>
    /\ UNCHANGED <<variant, argv, fileVars, winnersFile, run, stdout, rng, raffleVars,
                   raffle_options, winners, mint_wallet_map, grouped_winners>>

(* SetupOutput with the test of cli_args.no_out left out. *)
SetupOutputAlways ==
    /\ pc = "output"
    /\ stdout' = "tee"
    /\ logFile' = File(<<>>)
    /\ pc' = "banner"
    /\ UNCHANGED <<variant, argv, fileVars, winnersFile, run, exitCode, rng, mainVars,
                   raffleVars>>

(* if not cli_args.no_out: sys.stdout = TeeLogger("output.txt"), which opens
   the file for writing. *)
SetupOutput ==
    /\ pc = "output"
    /\ IF ~argv.no_out
       THEN stdout' = "tee" /\ logFile' = File(<<>>)
       ELSE UNCHANGED <<stdout, logFile>>
    /\ pc' = "banner"
    /\ UNCHANGED <<variant, argv, fileVars, winnersFile, run, exitCode, rng, mainVars,
                   raffleVars>>

(* The header, the seed and the warning for a seed that is no block hash. *)
PrintBanner ==
    /\ pc = "banner"
    /\ logFile' = Printed(logFile, stdout,
                          <<"header", "Running Noble Raffle...", "hash">>
                          \o (IF is_valid_ethereum_block_hash(argv.hash)
                              THEN <<>> ELSE <<"WARNING">>))
    /\ pc' = "seed"
    /\ UNCHANGED <<variant, argv, fileVars, winnersFile, run, exitCode, stdout, rng,
                   mainVars, raffleVars>>

(* SeedRng with the call of random.seed left out. *)
SeedRngSkipped ==
    /\ pc = "seed"
    /\ pc' = IF variant = "pref" THEN "options" ELSE "raffle"
    /\ UNCHANGED <<variant, argv, fileVars, outVars, run, exitCode, stdout, rng, mainVars,
                   raffleVars>>

(* random.seed(f"{RNG_SEED_PREFIX}-{cli_args.hash}") *)
SeedRng ==
    /\ pc = "seed"
    /\ rng' = SeedState(RNG_SEED_PREFIX, argv.hash)
    /\ pc' = IF variant = "pref" THEN "options" ELSE "raffle"
    /\ UNCHANGED <<variant, argv, fileVars, outVars, run, exitCode, stdout, mainVars,
                   raffleVars>>

(* raffle_options = dict(read_csv(cli_args.raffle_options, True)) *)
LoadRaffleOptions ==
    /\ pc = "options"
    /\ IF optionsFile = Missing
       THEN FileNotFound /\ UNCHANGED raffle_options
       ELSE /\ raffle_options' = OptionsDict(optionsFile.rows, EmptyMap)
            /\ pc' = "raffle"
            /\ UNCHANGED <<logFile, exitCode>>
    /\ UNCHANGED <<variant, argv, fileVars, winnersFile, run, stdout, rng, raffleVars,
                   owners, winners, mint_wallet_map, grouped_winners>>

(* raffle(): lp_picks, base_picks and the three lines that print them. *)
RaffleQuota ==
    /\ pc = "raffle"
    /\ lp_picks' = LpPicks(variant, argv.supply)
    /\ base_picks' = BasePicks(variant, argv.supply)
    /\ logFile' = Printed(logFile, stdout, <<"supply">>)
    /\ pc' = "build"
    /\ UNCHANGED <<variant, argv, fileVars, winnersFile, run, exitCode, stdout, rng,
                   mainVars, lps_entries, base_entries, participate, dont_participate,
                   no_preference, lp_winners, base_winners>>

(* raffle(): the loop over owners that fills lps_entries and base_entries. *)
BuildEntries ==
    /\ pc = "build"
    /\ lps_entries' = LpsEntries(owners, <<>>)
    /\ base_entries' = BaseEntries(owners, <<>>)
    /\ pc' = IF variant = "pref" THEN "partition" ELSE "draw_lp"
    /\ UNCHANGED <<variant, argv, fileVars, outVars, run, exitCode, stdout, rng, mainVars,
                   lp_picks, base_picks, participate, dont_participate, no_preference,
                   lp_winners, base_winners>>

(* raffle() of the preference aware program: the three preference groups. *)
Partition ==
    /\ pc = "partition"
    /\ participate' = Filter(lps_entries, Participating(raffle_options))
    /\ dont_participate' = Filter(lps_entries, Declining(raffle_options))
    /\ no_preference' = Filter(lps_entries, Undeclared(raffle_options))
    /\ pc' = "draw_lp"
    /\ UNCHANGED <<variant, argv, fileVars, outVars, run, exitCode, stdout, rng, mainVars,
                   lp_picks, base_picks, lps_entries, base_entries, lp_winners,
                   base_winners>>

(* An uncaught ValueError of random.sample: traceback, exit status 1. *)
Crash ==
    /\ pc' = "crashed"
    /\ exitCode' = Exit(1)

(* The Let's Play draw of the plain program:
   lp_winners = random.sample(lps_entries, k=lp_picks) *)
DrawPlain ==
    LET s == Sample(lps_entries, lp_picks, rng) IN
    [ok |-> s.ok, rng |-> s.rng, lp_winners |-> s.result, participate |-> participate]

(* DrawTiered with the last two groups consulted in the other order. *)
DrawTieredDeclinedFirst ==
    IF Len(participate) >= lp_picks
    THEN LET s == Sample(participate, lp_picks, rng) IN
         [ok |-> s.ok, rng |-> s.rng, lp_winners |-> s.result, participate |-> participate]
    ELSE LET remaining_picks == lp_picks - Len(participate) IN
         IF Len(dont_participate) >= remaining_picks
         THEN LET s == Sample(dont_participate, remaining_picks, rng) IN
              [ok |-> s.ok, rng |-> s.rng, lp_winners |-> participate \o s.result,
               participate |-> participate \o s.result]
         ELSE LET s == Sample(no_preference, remaining_picks - Len(dont_participate), rng)
                  all == participate \o dont_participate \o s.result
              IN  [ok |-> s.ok, rng |-> s.rng, lp_winners |-> all, participate |-> all]

(* The Let's Play draw of the preference aware program.  In the else branch
   lp_winners is the list participate itself, so += extends both names. *)
DrawTiered ==
    IF Len(participate) >= lp_picks
    THEN LET s == Sample(participate, lp_picks, rng) IN
         [ok |-> s.ok, rng |-> s.rng, lp_winners |-> s.result, participate |-> participate]
    ELSE LET remaining_picks == lp_picks - Len(participate) IN
         IF Len(no_preference) >= remaining_picks
         THEN LET s == Sample(no_preference, remaining_picks, rng) IN
              [ok |-> s.ok, rng |-> s.rng, lp_winners |-> participate \o s.result,
               participate |-> participate \o s.result]
         ELSE LET s == Sample(dont_participate, remaining_picks - Len(no_preference), rng)
                  all == participate \o no_preference \o s.result
              IN  [ok |-> s.ok, rng |-> s.rng, lp_winners |-> all, participate |-> all]

DrawLetsPlay ==
    /\ pc = "draw_lp"
    /\ LET d == IF variant = "pref" THEN DrawTiered ELSE DrawPlain IN
       IF d.ok
       THEN /\ lp_winners' = d.lp_winners
            /\ participate' = d.participate
            /\ rng' = d.rng
            /\ pc' = "draw_base"
            /\ UNCHANGED exitCode
       ELSE Crash /\ UNCHANGED <<lp_winners, participate, rng>>
    /\ UNCHANGED <<variant, argv, fileVars, outVars, run, stdout, mainVars, lp_picks,
                   base_picks, lps_entries, base_entries, dont_participate, no_preference,
                   base_winners>>

(* base_winners = random.sample(base_entries, k=base_picks) *)
DrawBase ==
    /\ pc = "draw_base"
    /\ LET s == Sample(base_entries, base_picks, rng) IN
       IF s.ok
       THEN /\ base_winners' = s.result
            /\ rng' = s.rng
            /\ pc' = "return"
            /\ UNCHANGED exitCode
       ELSE Crash /\ UNCHANGED <<base_winners, rng>>
    /\ UNCHANGED <<variant, argv, fileVars, outVars, run, stdout, mainVars, lp_picks,
                   base_picks, lps_entries, base_entries, participate, dont_participate,
                   no_preference, lp_winners>>

(* raffle(): both lists sorted and printed, the sorted merge returned to
   main(); the locals of raffle() are gone with its frame. *)
SortAndReturn ==
    /\ pc = "return"
    /\ winners' = SortAddresses(SortAddresses(lp_winners) \o SortAddresses(base_winners))
    /\ logFile' = Printed(logFile, stdout, <<"Raffling...", "winners">>)
    /\ lp_picks' = 0
    /\ base_picks' = 0
    /\ lps_entries' = <<>>
    /\ base_entries' = <<>>
    /\ participate' = <<>>
    /\ dont_participate' = <<>>
    /\ no_preference' = <<>>
    /\ lp_winners' = <<>>
    /\ base_winners' = <<>>
    /\ pc' = "mint"
    /\ UNCHANGED <<variant, argv, fileVars, winnersFile, run, exitCode, stdout, rng,
                   owners, raffle_options, mint_wallet_map, grouped_winners>>

(* mint_wallet_map = {addr: mint_addr for addr, mint_addr in read_csv(cli_args.mint_wallets)} *)
LoadMintWallets ==
    /\ pc = "mint"
    /\ IF mintFile = Missing
       THEN FileNotFound /\ UNCHANGED mint_wallet_map
       ELSE /\ mint_wallet_map' = MintDict(mintFile.rows, EmptyMap)
            /\ pc' = "consolidate"
            /\ UNCHANGED <<logFile, exitCode>>
    /\ UNCHANGED <<variant, argv, fileVars, winnersFile, run, stdout, rng, raffleVars,
                   owners, raffle_options, winners, grouped_winners>>

(* Remapped with mint_wallet_map.get(addr): None for a wallet with no mint wallet. *)
RemappedNoDefault(map, ws) ==
    [i \in DOMAIN ws |-> IF ws[i] \in DOMAIN map THEN map[ws[i]] ELSE "None"]

(* [mint_wallet_map.get(addr, addr) for addr in winners] *)
Remapped(map, ws) ==
    [i \in DOMAIN ws |-> IF ws[i] \in DOMAIN map THEN map[ws[i]] ELSE ws[i]]

(* Grouped with every address counted once. *)
GroupedOnce(ws) == [a \in Range(ws) |-> 1]

(* {address: len([w for w in winners if w == address]) for address in winners} *)
Grouped(ws) == [a \in Range(ws) |-> CountOf(ws, a)]

(* The hold wallets replaced by mint wallets, then the wins counted per address. *)
Consolidate ==
    /\ pc = "consolidate"
    /\ winners' = Remapped(mint_wallet_map, winners)
    /\ grouped_winners' = Grouped(winners')
    /\ pc' = "write"
    /\ UNCHANGED <<variant, argv, fileVars, outVars, run, exitCode, stdout, rng, owners,
                   raffle_options, mint_wallet_map, raffleVars>>

(* The rows of winners.csv: the header, then sorted(grouped_winners.items()). *)
WinnersTable(grouped) ==
    LET keys == Filter(AddressOrder, DOMAIN grouped) IN
    <<<<"address", "count">>>> \o [i \in DOMAIN keys |-> <<keys[i], grouped[keys[i]]>>]

WriteWinners ==
    /\ pc = "write"
    /\ winnersFile' = File(WinnersTable(grouped_winners))
    /\ pc' = "congrats"
    /\ UNCHANGED <<variant, argv, fileVars, logFile, run, exitCode, stdout, rng, mainVars,
                   raffleVars>>

(* print("Congratulations!"), and main() returns. *)
Congratulate ==
    /\ pc = "congrats"
    /\ logFile' = Printed(logFile, stdout, <<"Congratulations!">>)
    /\ pc' = "done"
    /\ exitCode' = Exit(0)
    /\ UNCHANGED <<variant, argv, fileVars, winnersFile, run, stdout, rng, mainVars,
                   raffleVars>>

Ended == pc \in {"done", "exited", "crashed"}

(* The same program is run again in the same directory, on the same tables,
   with the same --hash and --supply; only --no-out may differ. *)
Rerun ==
    /\ Ended
    /\ run < MaxRuns
    /\ run' = run + 1
    /\ \E n \in BOOLEAN : argv' = [argv EXCEPT !.no_out = n]
    /\ pc' = "start"
    /\ exitCode' = NoCode
    /\ stdout' = "terminal"
    /\ rng' \in EntropyStates
    /\ owners' = <<>>
    /\ raffle_options' = EmptyMap
    /\ lp_picks' = 0
    /\ base_picks' = 0
    /\ lps_entries' = <<>>
    /\ base_entries' = <<>>
    /\ participate' = <<>>
    /\ dont_participate' = <<>>
    /\ no_preference' = <<>>
    /\ lp_winners' = <<>>
    /\ base_winners' = <<>>
    /\ winners' = <<>>
    /\ mint_wallet_map' = EmptyMap
    /\ grouped_winners' = EmptyMap
    /\ UNCHANGED <<variant, fileVars, outVars>>

Next ==
    \/ LoadOwners
    \/ SetupOutput
    \/ PrintBanner
    \/ SeedRng
    \/ LoadRaffleOptions
    \/ RaffleQuota
    \/ BuildEntries
    \/ Partition
    \/ DrawLetsPlay
    \/ DrawBase
    \/ SortAndReturn
    \/ LoadMintWallets
    \/ Consolidate
    \/ WriteWinners
    \/ Congratulate

(* One invocation of the program. *)
Spec == Init /\ [][Next]_vars

(* Repeated invocations: snapshots of two holders, with and without a
   preference and a mint wallet, a block hash and a string that is none. *)
InitRerun ==
    InitFrom(Variants, {HASH_ONE, NOT_A_HASH}, 0..MaxSupply, {FALSE},
             Files(SnapshotTables(<<ADDR_A, ADDR_B>>,
                                  <<OTHER_TOKEN_ID, LETS_PLAY_TOKEN_ID>>)),
             {EmptyFile, File(<<<<ADDR_A, "false">>>>)},
             {EmptyFile, File(<<<<ADDR_A, ADDR_M>>>>)},
             {Absent})

NextRerun == Next \/ Rerun

SpecRerun == InitRerun /\ [][NextRerun]_vars

----------------------------------------------------------------------------
(* Properties. *)

Header == <<"address", "count">>

RECURSIVE SumCounts(_, _)
SumCounts(rows, i) == IF i > Len(rows) THEN 0 ELSE rows[i][2] + SumCounts(rows, i + 1)

IsIgnored(a) == \E i \in DOMAIN IGNORED_ADDRESSES : IGNORED_ADDRESSES[i] = a

(* C1: when a run completes, the counts of the winners table it wrote add up
   to the supply it was given. *)
C1_TallySumsToSupply ==
    pc = "done" =>
        /\ winnersFile.exists
        /\ winnersFile.rows[1] = Header
        /\ SumCounts(winnersFile.rows, 2) = argv.supply

(* Both holders won one slot each and both are sent to the same mint wallet. *)
C1_Witness ==
    /\ pc = "done"
    /\ variant = "pref"
    /\ argv.supply = 2
    /\ owners = <<<<ADDR_A, LETS_PLAY_TOKEN_ID, 1>>, <<ADDR_B, LETS_PLAY_TOKEN_ID, 1>>>>
    /\ mintFile.rows = <<<<ADDR_A, ADDR_M>>, <<ADDR_B, ADDR_M>>>>
    /\ winnersFile.rows = <<Header, <<ADDR_M, 2>>>>

(* The preference groups as the raffle options table states them. *)
OptedIn ==
    {a \in Addresses : \E i \in DOMAIN optionsFile.rows :
        optionsFile.rows[i][1] = a /\ optionsFile.rows[i][2] \in {"true", "True", "TRUE"}}
OptedOut ==
    {a \in Addresses : \E i \in DOMAIN optionsFile.rows :
        optionsFile.rows[i][1] = a /\ optionsFile.rows[i][2] \notin {"true", "True", "TRUE"}}
Silent == {a \in Addresses : \A i \in DOMAIN optionsFile.rows : optionsFile.rows[i][1] # a}

EntriesOf(group) == Cardinality({i \in DOMAIN lps_entries : lps_entries[i] \in group})
WinsOf(group) == Cardinality({i \in DOMAIN lp_winners : lp_winners[i] \in group})

(* C2: after the Let's Play draw of the preference aware program, the winners
   fill the quota from the participating entries first, then from the entries
   with no preference, and only then from the declined entries. *)
C2_TierOrder ==
    (variant = "pref" /\ pc \in {"draw_base", "return"}) =>
        /\ Len(lp_winners) = lp_picks
        /\ WinsOf(OptedIn) = Min(lp_picks, EntriesOf(OptedIn))
        /\ WinsOf(Silent) = Min(lp_picks - WinsOf(OptedIn), EntriesOf(Silent))
        /\ WinsOf(OptedOut) = lp_picks - WinsOf(OptedIn) - WinsOf(Silent)
        /\ WinsOf(Silent) > 0 => WinsOf(OptedIn) = EntriesOf(OptedIn)
        /\ WinsOf(OptedOut) > 0 =>
               /\ WinsOf(OptedIn) = EntriesOf(OptedIn)
               /\ WinsOf(Silent) = EntriesOf(Silent)
        /\ \A a \in Addresses : CountOf(lp_winners, a) <= CountOf(lps_entries, a)

(* All three groups hold entries, and one of two declined entries has won. *)
C2_Witness ==
    /\ variant = "pref"
    /\ pc = "draw_base"
    /\ EntriesOf(OptedIn) >= 1
    /\ EntriesOf(Silent) >= 1
    /\ EntriesOf(OptedOut) = 2
    /\ WinsOf(OptedOut) = 1

(* C3: a second run on the same tables with the same seed and supply writes the
   winners table the first run wrote, and ends as the first run ended; the
   generator holds the state the seed string gives until the first draw, and
   only seeding and the two draws change it. *)
C3_Deterministic ==
    [][/\ (pc = "write" /\ run > 1) => (winnersFile.exists /\ winnersFile' = winnersFile)
       /\ pc' \in {"exited", "crashed"} => ~winnersFile'.exists
       /\ pc' \in {"options", "raffle", "build", "partition", "draw_lp"} =>
              rng' = SeedState(RNG_SEED_PREFIX, argv'.hash)
       /\ rng' # rng => (pc \in {"seed", "draw_lp", "draw_base"} \/ Ended)]_vars

(* The second run has completed, on a seed that is no block hash, after a
   draw of one winner among two holders. *)
C3_Witness ==
    /\ run = 2
    /\ pc = "done"
    /\ variant = "pref"
    /\ ~is_valid_ethereum_block_hash(argv.hash)
    /\ argv.supply = 1
    /\ owners = <<<<ADDR_A, LETS_PLAY_TOKEN_ID, 1>>, <<ADDR_B, LETS_PLAY_TOKEN_ID, 1>>>>
    /\ Len(winnersFile.rows) = 2

(* C4: no ignored address is an entry of either pool, nor a winner of either
   draw, nor in the list raffle() returns. *)
C4_IgnoredNeverEnter ==
    \A a \in Addresses : IsIgnored(a) =>
        /\ a \notin Range(lps_entries)
        /\ a \notin Range(base_entries)
        /\ a \notin Range(lp_winners)
        /\ a \notin Range(base_winners)
        /\ pc \in {"mint", "consolidate"} => a \notin Range(winners)

(* raffle() has returned winners, from a table in which an ignored address
   holds Let's Play tokens. *)
C4_Witness ==
    /\ pc = "mint"
    /\ winners # <<>>
    /\ \E i \in DOMAIN ownersFile.rows :
           /\ IsIgnored(ownersFile.rows[i][1])
           /\ ownersFile.rows[i][2] = "34"

(* C5: a run that a draw aborts has exit status 1, returned no winners and
   left nothing behind: no winners table, and output.txt as it was. *)
C5_AbortPersistsNothing ==
    pc = "crashed" =>
        /\ exitCode = Exit(1)
        /\ winners = <<>>
        /\ ~winnersFile.exists
        /\ logFile \in {Absent, StaleLog}

(* C6: a run that a missing input table ends has exit status 1 and left
   nothing behind: no winners table, and output.txt as it was. *)
C6_MissingInputWritesNothing ==
    pc = "exited" =>
        /\ exitCode = Exit(1)
        /\ ~winnersFile.exists
        /\ (logFile = Absent \/ logFile = StaleLog)

(* The Let's Play records of owners, and the others. *)
GoldenRecords == {j \in DOMAIN owners : owners[j][2] = LETS_PLAY_TOKEN_ID}
OtherRecords == {j \in DOMAIN owners : owners[j][2] # LETS_PLAY_TOKEN_ID}

RECURSIVE SumBalances(_)
SumBalances(S) ==
    IF S = {} THEN 0
    ELSE LET j == CHOOSE j \in S : TRUE IN owners[j][3] + SumBalances(S \ {j})

TallyOf(g, a) == IF a \in DOMAIN g THEN g[a] ELSE 0

(* The mint wallet the mint wallet table gives a hold wallet, else the wallet. *)
FinalAddress(a) ==
    IF \E i \in DOMAIN mintFile.rows : mintFile.rows[i][1] = a
    THEN mintFile.rows[CHOOSE i \in DOMAIN mintFile.rows : mintFile.rows[i][1] = a][2]
    ELSE a

(* C7: the consolidation step gives every address the number of raw winners
   whose mint wallet (or own address, without one) it is. *)
C7_TallyCountsRemapped ==
    [][pc = "consolidate" =>
          \A a \in Addresses :
              TallyOf(grouped_winners', a) =
                  Cardinality({i \in DOMAIN winners : FinalAddress(winners[i]) = a})]_vars

(* Two holders with one win each share a mint wallet, which is counted twice. *)
C7_Witness ==
    /\ pc = "write"
    /\ variant = "pref"
    /\ argv.supply = 2
    /\ owners = <<<<ADDR_A, LETS_PLAY_TOKEN_ID, 1>>, <<ADDR_B, LETS_PLAY_TOKEN_ID, 1>>>>
    /\ mintFile.rows = <<<<ADDR_A, ADDR_M>>, <<ADDR_B, ADDR_M>>>>
    /\ TallyOf(grouped_winners, ADDR_M) = 2

QuotaKnown == pc \in {"build", "partition", "draw_lp", "draw_base", "return"}

(* C8, as amended: lp_picks is 0.9 x supply (1.0 x supply in the preference
   aware program) with its fraction dropped, which is the floor for a supply
   >= 0 and the ceiling for a negative one; base_picks is the rest, and with
   1.0 it is 0 and the base draw has no winner. *)
C8_QuotaTruncates ==
    QuotaKnown =>
        LET num == IF variant = "base" THEN 9 ELSE 10 IN
        /\ lp_picks + base_picks = argv.supply
        /\ argv.supply >= 0 =>
               (10 * lp_picks <= num * argv.supply /\ num * argv.supply < 10 * (lp_picks + 1))
        /\ argv.supply < 0 =>
               (10 * (lp_picks - 1) < num * argv.supply /\ num * argv.supply <= 10 * lp_picks)
        /\ variant = "pref" => (base_picks = 0 /\ base_winners = <<>>)

(* C8, as stated: lp_picks is the floor of 0.9 x supply (1.0 x supply) for
   every supply. *)
C8_QuotaFloors ==
    QuotaKnown =>
        LET num == IF variant = "base" THEN 9 ELSE 10 IN
        /\ lp_picks + base_picks = argv.supply
        /\ 10 * lp_picks <= num * argv.supply
        /\ num * argv.supply < 10 * (lp_picks + 1)
        /\ variant = "pref" => (base_picks = 0 /\ base_winners = <<>>)

(* The quota of a negative supply in the plain program. *)
C8_Witness ==
    /\ pc = "build"
    /\ variant = "base"
    /\ argv.supply = -1
    /\ lp_picks = 0
    /\ base_picks = -1

(* C9, as amended: with --no-out no step creates or changes output.txt; the
   winners table is written all the same. *)
C9_NoOutKeepsLog ==
    [][argv.no_out =>
          /\ logFile' = logFile
          /\ pc = "write" => (winnersFile'.exists /\ winnersFile' # winnersFile)]_vars

(* C9, as stated: with --no-out no step creates or changes output.txt or the
   winners table. *)
C9_NoOutWritesNoFile ==
    [][argv.no_out => (logFile' = logFile /\ winnersFile' = winnersFile)]_vars

(* A run with --no-out has completed beside an output.txt left by an earlier run. *)
C9_Witness ==
    /\ argv.no_out
    /\ pc = "done"
    /\ logFile = StaleLog
    /\ winnersFile.exists

(* C10: the Let's Play pool holds, record after record, balance entries of the
   address of each Let's Play record; the base pool holds, record after
   record, one entry of the address of each other record. *)
C10_EntryPools ==
    pc \in {"partition", "draw_lp", "draw_base", "return"} =>
        /\ Len(lps_entries) = SumBalances(GoldenRecords)
        /\ \A j \in GoldenRecords : \A c \in 1..owners[j][3] :
               lps_entries[SumBalances({k \in GoldenRecords : k < j}) + c] = owners[j][1]
        /\ Len(base_entries) = Cardinality(OtherRecords)
        /\ \A j \in OtherRecords :
               base_entries[Cardinality({k \in OtherRecords : k <= j})] = owners[j][1]
        /\ \A a \in Addresses :
               /\ CountOf(lps_entries, a) =
                      SumBalances({j \in GoldenRecords : owners[j][1] = a})
               /\ CountOf(base_entries, a) =
                      Cardinality({j \in OtherRecords : owners[j][1] = a})

(* The pools of a snapshot in which one holder has two Let's Play tokens and
   the other a Let's Play token and another token of balance 2. *)
C10_Witness ==
    /\ pc = "draw_lp"
    /\ owners = <<<<ADDR_A, LETS_PLAY_TOKEN_ID, 2>>, <<ADDR_B, OTHER_TOKEN_ID, 2>>,
                  <<ADDR_B, LETS_PLAY_TOKEN_ID, 1>>>>
    /\ lps_entries = <<ADDR_A, ADDR_A, ADDR_B>>
    /\ base_entries = <<ADDR_B>>

====
